---- MODULE Spec2Model ----
(***************************************************************************)
(* Citizen authentication backend: registration gated by the identity      *)
(* provider's OTP, login by national-ID number (FIN) or phone number, and  *)
(* the failed-attempt lockout.  Two deployments of the same routes exist   *)
(* in the repository: the Better Auth / Postgres one ("citizen",           *)
(* citizenAuth in src/src/middleware/adminAuth.ts) and the Supabase one    *)
(* ("legacy", src/src/routes/auth.ts).  Strings the code inspects          *)
(* character by character are sequences of one-character strings.  Time is *)
(* counted in minutes.                                                     *)
(***************************************************************************)
EXTENDS Integers, Sequences, FiniteSets, TLC

VARIABLES
    variant,   \* which deployment is running: "citizen" or "legacy"
    users,     \* the account store: a sequence of account rows, index = id
    now,       \* the clock, in minutes
    last,      \* the last request handled and the response it produced
    inflight,  \* login requests that have read the store and not yet written
    target,    \* the "user" table the migration script writes
    run        \* the migration script: its position, its counts, its pool

vars == <<variant, users, now, last, inflight, target, run>>

----------------------------------------------------------------------------
(* Bounds of the model *)

MaxTime == 20
TickMinutes == 5
MaxUsers == 3
MaxRuns == 2

(* Program constants *)

MaxAttempts == 5
LockMinutes == 15
FinLength == 12

----------------------------------------------------------------------------
(* Strings *)

Rep(c, n) == [i \in 1..n |-> c]

Digits == {"0", "1", "2", "3", "4", "5", "6", "7", "8", "9"}
Whitespace == {" "}

RECURSIVE TrimStart(_)
TrimStart(s) == IF s # <<>> /\ Head(s) \in Whitespace THEN TrimStart(Tail(s)) ELSE s

RECURSIVE TrimEnd(_)
TrimEnd(s) ==
    IF s # <<>> /\ s[Len(s)] \in Whitespace THEN TrimEnd(SubSeq(s, 1, Len(s) - 1)) ELSE s

\* String.prototype.trim
Trim(s) == TrimEnd(TrimStart(s))

\* String.prototype.startsWith
startsWith(s, p) == Len(s) >= Len(p) /\ SubSeq(s, 1, Len(p)) = p

\* String.prototype.substring(k): the characters from 0-based index k on
substring(s, k) == SubSeq(s, k + 1, Len(s))

\* /^\d{12}$/.test(s)
TestFin(s) == Len(s) = FinLength /\ \A i \in 1..Len(s) : s[i] \in Digits

Local09 == <<"0", "9">>
Intl2519 == <<"+", "2", "5", "1", "9">>
Plus251 == <<"+", "2", "5", "1">>

\* the identifier taken as it was sent
rawInputUntrimmed(loginInput) == loginInput

\* const rawInput = (loginInput || "").trim()
rawInputOf(loginInput) == Trim(loginInput)

\* only the format that was entered
possibleNumbersAsEntered(rawInput) == <<rawInput>>

\* the list of phone formats the login handlers search for
possibleNumbers(rawInput) ==
    IF startsWith(rawInput, Local09)
    THEN <<rawInput, Plus251 \o substring(rawInput, 1)>>
    ELSE IF startsWith(rawInput, Intl2519)
         THEN <<rawInput, <<"0">> \o substring(rawInput, 4)>>
         ELSE <<rawInput>>

Range(f) == {f[i] : i \in DOMAIN f}

----------------------------------------------------------------------------
(* Values the requests and the identity provider draw from *)

SuffixA == Rep("1", 8)
SuffixB == Rep("2", 8)
Bare2519 == <<"2", "5", "1", "9">>

FinA == Rep("7", FinLength)
FinB == Bare2519 \o SuffixA      \* twelve digits that also spell a phone number
FinC == Rep("3", FinLength)
FINs == {FinA, FinB, FinC}

NoFin == <<>>                    \* fin missing / NULL
NoPhone == <<>>
NoLock == -1                     \* locked_until NULL

Emails == {"a@x", "b@x"}
Passwords == {"pw1", "pw2"}
GoodOtp == "good"
Otps == {"", GoodOtp, "bad"}

\* kycData.personalIdentity.phone: the phone number the provider holds for a
\* FIN, each in the format the provider stores it in
KycPhone(fin) ==
    IF fin = FinA THEN Local09 \o SuffixA
    ELSE IF fin = FinB THEN Intl2519 \o SuffixB
    ELSE Bare2519 \o SuffixA

\* a provider that accepts every OTP
FaydaAcceptsAny(fin, otp) == TRUE

\* a provider that looks at the FIN only
FaydaAcceptsKnownFin(fin, otp) == fin \in FINs

\* FaydaService.verifyOtp resolves with the KYC data iff the provider accepts
FaydaAccepts(fin, otp) == fin \in FINs /\ otp = GoodOtp

----------------------------------------------------------------------------
(* The account store *)

Ids == 1..Len(users)

\* the FIN looked up in the phone column
FinRowsByPhone(fin) == {i \in Ids : users[i].profile /\ users[i].phone = fin}

\* SELECT ... WHERE fin = $1
FinRows(fin) == {i \in Ids : users[i].profile /\ users[i].fin # NoFin /\ users[i].fin = fin}

\* SELECT ... WHERE phone_number = ANY($1)
PhoneRows(numbers) ==
    {i \in Ids : users[i].profile /\ users[i].phone # NoPhone
                 /\ users[i].phone \in Range(numbers)}

\* the existence check dropped
EmailRowsUnchecked(email) == {}

\* SELECT id FROM "user" WHERE email = $1
EmailRows(email) == {i \in Ids : users[i].email = email}

\* the row auth.api.signUpEmail inserts: role defaults to "citizen", the
\* additional fields to their defaults
SignedUpRow(email, password) ==
    [email |-> email, password |-> password, fin |-> NoFin, phone |-> NoPhone,
     role |-> "citizen", emailVerified |-> FALSE, failed |-> 0,
     lockedUntil |-> NoLock, profile |-> TRUE]

\* a back-fill that leaves email_verified as sign-up set it
BackFilledUnverified(row, fin, phone) ==
    [row EXCEPT !.fin = fin, !.phone = phone, !.role = "citizen"]

\* UPDATE "user" SET fin, phone_number, ..., role = 'citizen', email_verified = true
BackFilled(row, fin, phone) ==
    [row EXCEPT !.fin = fin, !.phone = phone, !.role = "citizen", !.emailVerified = TRUE]

\* a password update that also lifts the lockout
PasswordSetUnlocks(id, newPassword) ==
    [users EXCEPT ![id].password = newPassword, ![id].failed = 0,
                  ![id].lockedUntil = NoLock]

\* the password update of the managed auth delegate: auth.api.setPassword /
\* supabaseAdmin.auth.admin.updateUserById(id, { password })
PasswordSet(id, newPassword) == [users EXCEPT ![id].password = newPassword]

\* the password check of the managed auth delegate
PasswordMatches(id, password) == users[id].password = password

\* the lock test with the comparison turned round
IsLockedInverted(lockedUntil, t) == lockedUntil # NoLock /\ lockedUntil < t

\* a lock that never expires
IsLockedForever(lockedUntil, t) == lockedUntil # NoLock

\* a lock test that never finds a lock
IsLockedNever(lockedUntil, t) == FALSE

\* locked_until && new Date(locked_until) > new Date()
IsLocked(lockedUntil, t) == lockedUntil # NoLock /\ lockedUntil > t

\* the lock written one failure late
lockTimeLate(newCount) == IF newCount > MaxAttempts THEN now + LockMinutes ELSE NoLock

\* the lock written only by the attempt that reaches the limit exactly
lockTimeAtLimitOnly(newCount) == IF newCount = MaxAttempts THEN now + LockMinutes ELSE NoLock

\* the lock written with a failed attempt that brings the counter to newCount
lockTime(newCount) == IF newCount >= MaxAttempts THEN now + LockMinutes ELSE NoLock

\* UPDATE "user" SET failed_login_attempts = $1, locked_until = $2 WHERE id = $3
CitizenFailedUpdate(id, newCount) ==
    [users EXCEPT ![id].failed = newCount, ![id].lockedUntil = lockTime(newCount)]

\* profiles.update(updates): locked_until is among the updates only at the limit
LegacyFailedUpdate(id, newCount) ==
    IF newCount >= MaxAttempts
    THEN [users EXCEPT ![id].failed = newCount, ![id].lockedUntil = lockTime(newCount)]
    ELSE [users EXCEPT ![id].failed = newCount]

\* a reset that forgets the lock timestamp
ResetCounterOnly(id) == [users EXCEPT ![id].failed = 0]

\* a reset without its WHERE clause
ResetAttemptsAll(id) ==
    [i \in DOMAIN users |-> [users[i] EXCEPT !.failed = 0, !.lockedUntil = NoLock]]

\* failed_login_attempts = 0, locked_until = NULL
ResetAttempts(id) == [users EXCEPT ![id].failed = 0, ![id].lockedUntil = NoLock]

----------------------------------------------------------------------------
(* Requests and responses *)

Req(op, input, email) ==
    [op |-> op, input |-> input, email |-> email, at |-> now,
     password |-> "", otp |-> "", session |-> 0,
     status |-> 0, success |-> "absent", msg |-> "", n |-> -1, token |-> FALSE, user |-> 0,
     lookup |-> "none", key |-> <<>>, pw |-> "none", pre |-> -1, preLock |-> NoLock,
     calls |-> <<>>, fault |-> "none", escaped |-> FALSE,
     header |-> "none", ran |-> FALSE, issued |-> "none"]

Reply(r, status, msg, calls) ==
    [r EXCEPT !.status = status, !.msg = msg, !.calls = calls]

\* a thrown error caught by the handler's catch block
Caught(r, status, fault, calls) ==
    [r EXCEPT !.status = status, !.msg = fault, !.calls = calls, !.fault = fault]

\* no request handled yet
Idle == Req("none", NoFin, "")

\* the login requests that may be between their SELECT and their UPDATE
Slots == {"first", "second"}
NoRequest == [pc |-> "idle", q |-> Idle, ok |-> FALSE]
NoneInflight == [s \in Slots |-> NoRequest]

\* the error of a login whose identifier matches no account
UnknownIdentifierError(v) ==
    IF v = "citizen" THEN "Invalid credentials" ELSE "Invalid Login Credentials"

\* citizenAuth: c.json({ success: true, ... }), status 200 by default
Success(r, msg, calls) == [Reply(r, 200, msg, calls) EXCEPT !.success = "true"]

\* citizenAuth: c.json({ success: false, error: msg }, status)
Failure(r, status, msg, calls) == [Reply(r, status, msg, calls) EXCEPT !.success = "false"]

\* a throw that leaves the handler without a response
ThrownEscapes(r, fault, calls) ==
    [r EXCEPT !.status = 500, !.msg = fault, !.fault = fault, !.calls = calls,
              !.escaped = TRUE]

\* citizenAuth: catch (error) { return c.json({ success: false, error: ... }, 500) }
Thrown(r, fault, calls) == [Caught(r, 500, fault, calls) EXCEPT !.success = "false"]

----------------------------------------------------------------------------
(* citizenAuth: the Better Auth deployment *)

CitizenInitiateRegister(fin, fault) ==
    /\ variant = "citizen"
    /\ UNCHANGED <<variant, users, now, inflight, target, run>>
    /\ LET r == Req("initiate-register", fin, "")
           c1 == <<"store.selectByFin">>
           c2 == c1 \o <<"fayda.requestOtp">>
       IN  last' =
             IF fault = "body" THEN Thrown(r, "body", <<>>)
             ELSE IF fin = NoFin \/ ~TestFin(fin)
             THEN Failure(r, 400, "Invalid FIN. Must be 12 digits.", <<>>)
             ELSE IF fault = "read" THEN Thrown(r, "read", c1)
             ELSE IF FinRows(fin) # {}
             THEN Failure(r, 409, "User already registered. Please login.", c1)
             ELSE IF fault = "fayda" THEN Thrown(r, "fayda", c2)
             ELSE Success(r, "OTP sent successfully", c2)

CitizenCompleteRegister(fin, otp, email, password, fault) ==
    /\ variant = "citizen"
    /\ UNCHANGED <<variant, now, inflight, target, run>>
    /\ LET r == [Req("complete-register", fin, email)
                   EXCEPT !.otp = otp, !.password = password]
           c1 == <<"fayda.verifyOtp">>
           c2 == c1 \o <<"store.selectByEmail">>
           c3 == c2 \o <<"auth.signUpEmail">>
           c4 == c3 \o <<"store.updateUser">>
           id == Len(users) + 1
           row == SignedUpRow(email, password)
       IN  IF fault = "body"
           THEN last' = Thrown(r, "body", <<>>) /\ UNCHANGED users
           ELSE IF fin = NoFin \/ otp = "" \/ email = "" \/ password = ""
           THEN /\ last' = Failure(r, 400, "FIN, OTP, email, and password are required", <<>>)
                /\ UNCHANGED users
           ELSE IF fault = "fayda"
           THEN last' = Thrown(r, "fayda", c1) /\ UNCHANGED users
           ELSE IF ~FaydaAccepts(fin, otp)
           THEN last' = Failure(r, 500, "Fayda Validation Failed", c1) /\ UNCHANGED users
           ELSE IF fault = "read"
           THEN last' = Thrown(r, "read", c2) /\ UNCHANGED users
           ELSE IF EmailRows(email) # {}
           THEN last' = Failure(r, 409, "Email already registered", c2) /\ UNCHANGED users
           ELSE IF fault = "auth"
           THEN last' = Thrown(r, "auth", c3) /\ UNCHANGED users
           ELSE /\ Len(users) < MaxUsers
                /\ IF fault = "write"
                   THEN /\ users' = Append(users, row)
                        /\ last' = Thrown(r, "write", c4)
                   ELSE /\ users' = Append(users, BackFilled(row, fin, KycPhone(fin)))
                        /\ last' = [Success(r, "Registration successful", c4)
                                      EXCEPT !.user = id]

CitizenLogin(loginInput, password, fault) ==
    /\ variant = "citizen"
    /\ UNCHANGED <<variant, now, inflight, target, run>>
    /\ LET rawInput == rawInputOf(loginInput)
           r == [Req("login", loginInput, "") EXCEPT !.password = password]
           isFin == TestFin(rawInput)
           rows == IF isFin THEN FinRows(rawInput)
                            ELSE PhoneRows(possibleNumbers(rawInput))
           c1 == IF isFin THEN <<"store.selectByFin">> ELSE <<"store.selectByPhone">>
           c2 == c1 \o <<"auth.signInEmail">>
           c3 == c2 \o <<"store.updateUser">>
           q == [r EXCEPT !.lookup = IF isFin THEN "fin" ELSE "phone", !.key = rawInput]
       IN  IF fault = "body"
           THEN last' = Thrown(r, "body", <<>>) /\ UNCHANGED users
           ELSE IF rawInput = <<>> \/ password = ""
           THEN /\ last' = Failure(r, 400, "Login input and password are required", <<>>)
                /\ UNCHANGED users
           ELSE IF fault = "read"
           THEN last' = Thrown(q, "read", c1) /\ UNCHANGED users
           ELSE IF rows = {}
           THEN last' = Failure(q, 401, UnknownIdentifierError("citizen"), c1) /\ UNCHANGED users
           ELSE \E id \in rows :          \* result.rows[0]: no ORDER BY
             LET userData == users[id]
                 u == [q EXCEPT !.user = id, !.pre = userData.failed,
                                !.preLock = userData.lockedUntil]
                 newCount == userData.failed + 1
             IN  IF IsLocked(userData.lockedUntil, now)
                 THEN /\ last' = [Failure(u, 403, "Account locked. Try again in N minutes.", c1)
                                    EXCEPT !.n = userData.lockedUntil - now]
                      /\ UNCHANGED users
                 ELSE IF fault = "auth"
                 THEN last' = Thrown(u, "auth", c2) /\ UNCHANGED users
                 ELSE IF ~PasswordMatches(id, password)
                 THEN IF fault = "write"
                      THEN /\ last' = [Thrown(u, "write", c3) EXCEPT !.pw = "fail"]
                           /\ UNCHANGED users
                      ELSE /\ users' = CitizenFailedUpdate(id, newCount)
                           /\ last' =
                                IF newCount >= MaxAttempts
                                THEN [Failure(u, 403,
                                        "Too many failed attempts. Account locked for 15 minutes.",
                                        c3) EXCEPT !.pw = "fail"]
                                ELSE [Failure(u, 401, "Invalid credentials. N attempts remaining.",
                                        c3) EXCEPT !.pw = "fail", !.n = MaxAttempts - newCount]
                 ELSE IF fault = "write"
                      THEN /\ last' = [Thrown(u, "write", c3) EXCEPT !.pw = "ok"]
                           /\ UNCHANGED users
                      ELSE /\ users' = ResetAttempts(id)
                           /\ last' = [Success(u, "Login successful", c3)
                                         EXCEPT !.pw = "ok", !.token = TRUE]

\* the response of initiate-reset once the store has answered with rows
CitizenInitiateResetReply(r, rows, fault) ==
    LET c1 == <<"store.selectByFin">>
        c2 == c1 \o <<"fayda.requestOtp">>
    IN  IF rows = {}
        THEN Success(r, "If an account exists, an OTP has been sent.", c1)
        ELSE IF fault = "fayda" THEN Thrown(r, "fayda", c2)
        ELSE Success(r, "OTP sent successfully", c2)

CitizenInitiateReset(fin, fault) ==
    /\ variant = "citizen"
    /\ UNCHANGED <<variant, users, now, inflight, target, run>>
    /\ LET r == Req("initiate-reset", fin, "")
       IN  last' =
             IF fault = "body" THEN Thrown(r, "body", <<>>)
             ELSE IF fin = NoFin THEN Failure(r, 400, "FIN is required", <<>>)
             ELSE IF fault = "read" THEN Thrown(r, "read", <<"store.selectByFin">>)
             ELSE CitizenInitiateResetReply(r, FinRows(fin), fault)

\* auth.api.setPassword({ body: { newPassword }, headers }): the call is given
\* the new password and the request's headers only, so the one account it
\* can act on is the account of the session the headers carry
SetPasswordTargets(session) == IF session = 0 THEN {} ELSE {session}

CitizenResetPassword(fin, otp, newPassword, session, fault) ==
    /\ variant = "citizen"
    /\ UNCHANGED <<variant, now, inflight, target, run>>
    /\ LET r == [Req("reset-password", fin, "")
                   EXCEPT !.otp = otp, !.password = newPassword, !.session = session]
           c1 == <<"fayda.verifyOtp">>
           c2 == c1 \o <<"store.selectByFin">>
           c3 == c2 \o <<"auth.setPassword">>
       IN  IF fault = "body"
           THEN last' = Thrown(r, "body", <<>>) /\ UNCHANGED users
           ELSE IF fin = NoFin \/ otp = "" \/ newPassword = ""
           THEN /\ last' = Failure(r, 400, "FIN, OTP, and new password are required", <<>>)
                /\ UNCHANGED users
           ELSE IF fault = "fayda"
           THEN last' = Thrown(r, "fayda", c1) /\ UNCHANGED users
           ELSE IF ~FaydaAccepts(fin, otp)
           THEN last' = Failure(r, 500, "Fayda Validation Failed", c1) /\ UNCHANGED users
           ELSE IF fault = "read"
           THEN last' = Thrown(r, "read", c2) /\ UNCHANGED users
           ELSE IF FinRows(fin) = {}
           THEN last' = Failure(r, 404, "User not found", c2) /\ UNCHANGED users
           ELSE IF fault = "auth"
           THEN last' = Thrown(r, "auth", c3) /\ UNCHANGED users
           ELSE IF SetPasswordTargets(session) = {}
           THEN \* no session in the headers: setPassword throws, caught below
                last' = Failure(r, 500, "setPassword: no session", c3) /\ UNCHANGED users
           ELSE \E id \in SetPasswordTargets(session) :
                  \/ /\ users' = PasswordSet(id, newPassword)
                     /\ last' = Success(r, "Password updated successfully", c3)
                  \/ \* setPassword refuses the session's account and throws
                     /\ last' = Failure(r, 500, "setPassword: refused", c3)
                     /\ UNCHANGED users

----------------------------------------------------------------------------
(* routes/auth.ts: the Supabase deployment.  The auth user (email, password, *)
(* confirmation) and the profiles row (fin, phone, role, lockout fields) of  *)
(* one id are kept in one row here; profile says whether the profiles row    *)
(* exists.                                                                   *)

\* .single() / .maybeSingle(): the row when exactly one row matches, else null
SingleRow(rows) == IF Cardinality(rows) = 1 THEN CHOOSE i \in rows : TRUE ELSE 0

\* the auth user supabaseAdmin.auth.admin.createUser makes (email_confirm: true)
CreatedAuthUser(email, password) ==
    [email |-> email, password |-> password, fin |-> NoFin, phone |-> NoPhone,
     role |-> "none", emailVerified |-> TRUE, failed |-> 0,
     lockedUntil |-> NoLock, profile |-> FALSE]

\* supabaseAdmin.from('profiles').insert({id, fin, ..., role: 'citizen'})
WithProfile(row, fin, phone) ==
    [row EXCEPT !.fin = fin, !.phone = phone, !.role = "citizen", !.profile = TRUE]

\* an exception thrown outside any try block leaves the handler
Escaped(r) == [r EXCEPT !.status = 500, !.msg = "body", !.fault = "body", !.escaped = TRUE]

LegacyInitiateRegister(fin, fault) ==
    /\ variant = "legacy"
    /\ UNCHANGED <<variant, users, now, inflight, target, run>>
    /\ LET r == Req("initiate-register", fin, "")
           c1 == <<"store.selectByFin">>
           c2 == c1 \o <<"fayda.requestOtp">>
           existingUser == IF fault = "read" THEN 0 ELSE SingleRow(FinRows(fin))
           f == [r EXCEPT !.fault = IF fault = "read" THEN "read" ELSE "none"]
       IN  last' =
             IF fault = "body" THEN Escaped(r)
             ELSE IF fin = NoFin \/ Len(fin) # FinLength
             THEN Reply(r, 400, "Invalid FIN", <<>>)
             ELSE IF existingUser # 0
             THEN Reply(r, 409, "User already registered. Please Login.", c1)
             ELSE IF fault = "fayda" THEN Caught(r, 500, "fayda", c2)
             ELSE Reply(f, 200, "OTP sent successfully", c2)

LegacyCompleteRegister(fin, otp, email, password, fault) ==
    /\ variant = "legacy"
    /\ UNCHANGED <<variant, now, inflight, target, run>>
    /\ LET r == [Req("complete-register", fin, email)
                   EXCEPT !.otp = otp, !.password = password]
           c1 == <<"fayda.verifyOtp">>
           c2 == c1 \o <<"auth.createUser">>
           c3 == c2 \o <<"store.insertProfile">>
           id == Len(users) + 1
           row == CreatedAuthUser(email, password)
       IN  IF fault = "body"
           THEN last' = Escaped(r) /\ UNCHANGED users
           ELSE IF fault = "fayda"
           THEN last' = Caught(r, 400, "fayda", c1) /\ UNCHANGED users
           ELSE IF ~FaydaAccepts(fin, otp)
           THEN last' = Reply(r, 400, "Fayda Validation Failed", c1) /\ UNCHANGED users
           ELSE IF fault = "auth"
           THEN last' = Caught(r, 400, "auth", c2) /\ UNCHANGED users
           ELSE IF email = "" \/ password = "" \/ EmailRows(email) # {}
           THEN last' = Reply(r, 400, "authError", c2) /\ UNCHANGED users
           ELSE /\ Len(users) < MaxUsers
                /\ IF fault = "write"
                   THEN /\ users' = Append(users, row)
                        /\ last' = Caught(r, 400, "write", c3)
                   ELSE /\ users' = Append(users, WithProfile(row, fin, KycPhone(fin)))
                        /\ last' = [Reply(r, 200, "Registration Successful", c3)
                                      EXCEPT !.user = id]

LegacyLogin(loginInput, password, fault) ==
    /\ variant = "legacy"
    /\ UNCHANGED <<variant, now, inflight, target, run>>
    /\ LET rawInput == rawInputOf(loginInput)
           r == [Req("login", loginInput, "") EXCEPT !.password = password]
           isFin == TestFin(rawInput)
           rows == IF isFin THEN FinRows(rawInput)
                            ELSE PhoneRows(possibleNumbers(rawInput))
           c1 == IF isFin THEN <<"store.selectByFin">> ELSE <<"store.selectByPhone">>
           c2 == c1 \o <<"auth.getUserById">>
           c3 == c2 \o <<"auth.signInWithPassword">>
           c4 == c3 \o <<"store.updateProfile">>
           q == [r EXCEPT !.lookup = IF isFin THEN "fin" ELSE "phone", !.key = rawInput]
           id == IF fault = "read" THEN 0 ELSE SingleRow(rows)
       IN  IF fault = "body"
           THEN last' = Escaped(r) /\ UNCHANGED users
           ELSE IF rawInput = <<>> \/ password = ""
           THEN last' = Reply(r, 400, "Missing credentials", <<>>) /\ UNCHANGED users
           ELSE IF id = 0
           THEN /\ last' = [Reply(q, 401, UnknownIdentifierError("legacy"), c1)
                              EXCEPT !.fault = IF fault = "read" THEN "read" ELSE "none"]
                /\ UNCHANGED users
           ELSE
             LET profileData == users[id]
                 u == [q EXCEPT !.user = id, !.pre = profileData.failed,
                                !.preLock = profileData.lockedUntil]
                 w == [u EXCEPT !.fault = IF fault = "write" THEN "write" ELSE "none"]
                 newCount == profileData.failed + 1
             IN  IF IsLocked(profileData.lockedUntil, now)
                 THEN /\ last' = [Reply(u, 403, "Account locked. Try again in N minutes.", c1)
                                    EXCEPT !.n = profileData.lockedUntil - now]
                      /\ UNCHANGED users
                 ELSE IF fault = "auth"
                 THEN last' = Caught(u, 500, "auth", c2) /\ UNCHANGED users
                 ELSE IF ~PasswordMatches(id, password)
                 THEN /\ users' =
                           IF fault = "write" THEN users
                           ELSE LegacyFailedUpdate(id, newCount)
                      /\ last' =
                           IF newCount >= MaxAttempts
                           THEN [Reply(w, 403,
                                   "Too many failed attempts. Account locked for 15 minutes.",
                                   c4) EXCEPT !.pw = "fail"]
                           ELSE [Reply(w, 401, "Incorrect Password. (N attempts remaining)", c4)
                                   EXCEPT !.pw = "fail", !.n = MaxAttempts - newCount]
                 ELSE /\ users' =
                           IF fault = "write" THEN users ELSE ResetAttempts(id)
                      /\ last' = [Reply(w, 200, "session", c4)
                                    EXCEPT !.pw = "ok", !.token = TRUE]

LegacyInitiateReset(fin, fault) ==
    /\ variant = "legacy"
    /\ UNCHANGED <<variant, users, now, inflight, target, run>>
    /\ LET r == Req("initiate-reset", fin, "")
           c1 == <<"store.selectByFin">>
           c2 == c1 \o <<"fayda.requestOtp">>
           user == IF fault = "read" THEN 0 ELSE SingleRow(FinRows(fin))
           f == [r EXCEPT !.fault = IF fault = "read" THEN "read" ELSE "none"]
       IN  last' =
             IF fault = "body" THEN Escaped(r)
             ELSE IF fin = NoFin THEN Reply(r, 400, "FIN required", <<>>)
             ELSE IF user = 0
             THEN Reply(f, 404, "No account found with this ID. Please Register.", c1)
             ELSE IF fault = "fayda" THEN Caught(r, 500, "fayda", c2)
             ELSE Reply(r, 200, "OTP sent", c2)

LegacyResetPassword(fin, otp, newPassword, fault) ==
    /\ variant = "legacy"
    /\ UNCHANGED <<variant, now, inflight, target, run>>
    /\ LET r == [Req("reset-password", fin, "")
                   EXCEPT !.otp = otp, !.password = newPassword]
           c1 == <<"fayda.verifyOtp">>
           c2 == c1 \o <<"store.selectByFin">>
           c3 == c2 \o <<"auth.updateUserById">>
           profile == IF fault = "read" THEN 0 ELSE SingleRow(FinRows(fin))
           f == [r EXCEPT !.fault = IF fault = "read" THEN "read" ELSE "none"]
       IN  IF fault = "body"
           THEN last' = Escaped(r) /\ UNCHANGED users
           ELSE IF fault = "fayda"
           THEN last' = Caught(r, 400, "fayda", c1) /\ UNCHANGED users
           ELSE IF ~FaydaAccepts(fin, otp)
           THEN last' = Reply(r, 400, "Fayda Validation Failed", c1) /\ UNCHANGED users
           ELSE IF profile = 0
           THEN last' = Reply(f, 404, "User not found", c2) /\ UNCHANGED users
           ELSE IF fault = "auth"
           THEN last' = Caught(r, 400, "auth", c3) /\ UNCHANGED users
           ELSE IF newPassword = ""
           THEN last' = Reply(r, 400, "updateError", c3) /\ UNCHANGED users
           ELSE /\ users' = PasswordSet(profile, newPassword)
                /\ last' = [Reply(r, 200, "Password updated successfully", c3)
                              EXCEPT !.user = profile]

----------------------------------------------------------------------------
(* routes/admin.ts and adminGuard: the admin dashboard of the Supabase      *)
(* deployment                                                               *)

\* every role passes
IsAnyRole(userRole) == TRUE

\* userRole !== 'admin' && userRole !== 'super_admin', negated
IsAdminRole(userRole) == userRole \in {"admin", "super_admin"}

\* a guard that ignores the role it was built with
MeetsRequiredAlways(requiredRole, userRole) == TRUE

\* requiredRole === 'super_admin' && userRole !== 'super_admin', negated
MeetsRequired(requiredRole, userRole) ==
    ~(requiredRole = "super_admin" /\ userRole # "super_admin")

\* the routes behind adminGuard and the role each guard was built with
GuardedRoutes == {"admin-logout", "admin-me", "admin-system-logs"}
requiredRoleOf(route) == IF route = "admin-system-logs" THEN "super_admin" ELSE "undefined"

\* .from('profiles').select(...).eq('id', id).single()
ProfileOf(id) == IF id \in Ids /\ users[id].profile THEN id ELSE 0

\* adminGuard(requiredRole) followed by the route's handler.  header: the
\* Authorization header ("missing" or "bearer"); validated: the user
\* supabaseAdmin.auth.getUser(token) returns for the token, 0 for an error.
AdminGuarded(route, header, validated, fault) ==
    /\ variant = "legacy"
    /\ UNCHANGED <<variant, users, now, inflight, target, run>>
    /\ LET r == [Req(route, NoFin, "") EXCEPT !.header = header]
           c1 == <<"auth.getUser">>
           c2 == c1 \o <<"store.selectProfile">>
           u == [r EXCEPT !.user = validated]
           profile == IF fault = "read" THEN 0 ELSE ProfileOf(validated)
           f == [u EXCEPT !.fault = IF fault = "read" THEN "read" ELSE "none"]
       IN  last' =
             IF header = "missing"
             THEN Reply(r, 401, "Missing Authorization Header", <<>>)
             ELSE IF fault = "auth"
             THEN [Escaped(r) EXCEPT !.msg = "auth", !.fault = "auth", !.calls = c1]
             ELSE IF validated = 0
             THEN Reply(r, 401, "Invalid or Expired Token", c1)
             ELSE IF profile = 0
             THEN Reply(f, 404, "Profile not found", c2)
             ELSE IF ~IsAdminRole(users[profile].role)
             THEN Reply(u, 403, "Unauthorized: Admins Only", c2)
             ELSE IF ~MeetsRequired(requiredRoleOf(route), users[profile].role)
             THEN Reply(u, 403, "Unauthorized: Super Admins Only", c2)
             ELSE [Reply(u, 200, route, c2 \o <<"next">>) EXCEPT !.ran = TRUE]

\* supabaseAdmin.auth.signInWithPassword({ email, password })
SignedIn(email, password) ==
    {i \in Ids : users[i].email = email /\ users[i].password = password}

\* admin.post('/login').  issued: what became of the session that
\* signInWithPassword issued in this request
AdminLogin(email, password, fault) ==
    /\ variant = "legacy"
    /\ UNCHANGED <<variant, users, now, inflight, target, run>>
    /\ LET r == [Req("admin-login", NoFin, email) EXCEPT !.password = password]
           c1 == <<"auth.signInWithPassword">>
           c2 == c1 \o <<"store.selectProfile">>
           c3 == c2 \o <<"auth.admin.signOut">>
       IN  IF fault = "body" THEN last' = Escaped(r)
           ELSE IF email = "" \/ password = ""
           THEN last' = Reply(r, 400, "Missing credentials", <<>>)
           ELSE IF fault = "auth" \/ SignedIn(email, password) = {}
           THEN last' = [Reply(r, 401, "Invalid Credentials", c1)
                           EXCEPT !.fault = IF fault = "auth" THEN "auth" ELSE "none"]
           ELSE \E id \in SignedIn(email, password) :
             LET u == [r EXCEPT !.user = id]
                 profile == IF fault = "read" THEN 0 ELSE ProfileOf(id)
                 f == [u EXCEPT !.fault = IF fault = "read" THEN "read" ELSE "none"]
             IN  IF profile = 0 \/ ~IsAdminRole(users[id].role)
                 THEN IF fault = "signout"
                      THEN \* signOut fails: it throws into the catch block, or
                           \* returns an error that the handler does not read
                           \/ last' = [Caught(u, 500, "signout", c3) EXCEPT !.issued = "live"]
                           \/ last' = [Reply(u, 403,
                                          "Unauthorized: Access denied for non-admin accounts.",
                                          c3) EXCEPT !.issued = "live", !.fault = "signout"]
                      ELSE last' = [Reply(f, 403,
                                      "Unauthorized: Access denied for non-admin accounts.",
                                      c3) EXCEPT !.issued = "revoked"]
                 ELSE last' = [Reply(u, 200, "Welcome Admin", c2)
                                 EXCEPT !.token = TRUE, !.issued = "live"]

----------------------------------------------------------------------------
(* The login handlers step by step: each await is a point where another     *)
(* request can run.  The row read by the SELECT is kept in the request      *)
(* (q.pre, q.preLock) and the UPDATE is computed from it.                   *)

\* an increment done by the store on its current value
newCountFromStore(id, failedRead) == users[id].failed + 1

\* const newCount = (userData.failed_login_attempts || 0) + 1
newCountOf(id, failedRead) == failedRead + 1

\* the part of login up to the lock check: validation, lookup, lock test
LoginRead(s, loginInput, password) ==
    /\ inflight[s].pc = "idle"
    /\ UNCHANGED <<variant, users, now, target, run>>
    /\ LET rawInput == rawInputOf(loginInput)
           r == [Req("login", loginInput, "") EXCEPT !.password = password]
           isFin == TestFin(rawInput)
           rows == IF isFin THEN FinRows(rawInput)
                            ELSE PhoneRows(possibleNumbers(rawInput))
           found == IF variant = "citizen" THEN rows
                    ELSE {SingleRow(rows)} \ {0}
           c1 == IF isFin THEN <<"store.selectByFin">> ELSE <<"store.selectByPhone">>
           q == [r EXCEPT !.lookup = IF isFin THEN "fin" ELSE "phone", !.key = rawInput]
           Answer(st, citizenMsg, legacyMsg, calls) ==
               IF variant = "citizen" THEN Failure(q, st, citizenMsg, calls)
               ELSE Reply(q, st, legacyMsg, calls)
       IN  IF rawInput = <<>> \/ password = ""
           THEN /\ last' = Answer(400, "Login input and password are required",
                                  "Missing credentials", <<>>)
                /\ UNCHANGED inflight
           ELSE IF found = {}
           THEN /\ last' = Answer(401, UnknownIdentifierError("citizen"),
                                  UnknownIdentifierError("legacy"), c1)
                /\ UNCHANGED inflight
           ELSE \E id \in found :
             LET u == [q EXCEPT !.user = id, !.pre = users[id].failed,
                                !.preLock = users[id].lockedUntil, !.calls = c1]
             IN  IF IsLocked(users[id].lockedUntil, now)
                 THEN /\ last' =
                           [(IF variant = "citizen"
                             THEN Failure(u, 403, "Account locked. Try again in N minutes.", c1)
                             ELSE Reply(u, 403, "Account locked. Try again in N minutes.", c1))
                            EXCEPT !.n = users[id].lockedUntil - now]
                      /\ UNCHANGED inflight
                 ELSE /\ inflight' = [inflight EXCEPT ![s] = [pc |-> "read", q |-> u,
                                                              ok |-> FALSE]]
                      /\ UNCHANGED last

\* the password check by the managed-auth delegate
LoginCheck(s) ==
    /\ inflight[s].pc = "read"
    /\ UNCHANGED <<variant, users, now, last, target, run>>
    /\ LET u == inflight[s].q
           made == IF variant = "citizen" THEN <<"auth.signInEmail">>
                   ELSE <<"auth.getUserById", "auth.signInWithPassword">>
       IN  inflight' = [inflight EXCEPT ![s] =
                          [pc |-> "checked",
                           q |-> [u EXCEPT !.calls = u.calls \o made,
                                           !.pw = IF PasswordMatches(u.user, u.password)
                                                  THEN "ok" ELSE "fail"],
                           ok |-> PasswordMatches(u.user, u.password)]]

\* the UPDATE computed from the row read earlier, and the response
LoginWrite(s) ==
    /\ inflight[s].pc = "checked"
    /\ UNCHANGED <<variant, now, target, run>>
    /\ inflight' = [inflight EXCEPT ![s] = NoRequest]
    /\ LET u == inflight[s].q
           id == u.user
           newCount == newCountOf(id, u.pre)
           calls == u.calls \o (IF variant = "citizen" THEN <<"store.updateUser">>
                                                       ELSE <<"store.updateProfile">>)
       IN  IF ~inflight[s].ok
           THEN /\ users' = IF variant = "citizen" THEN CitizenFailedUpdate(id, newCount)
                                                   ELSE LegacyFailedUpdate(id, newCount)
                /\ last' =
                     IF variant = "citizen"
                     THEN IF newCount >= MaxAttempts
                          THEN Failure(u, 403,
                                 "Too many failed attempts. Account locked for 15 minutes.",
                                 calls)
                          ELSE [Failure(u, 401, "Invalid credentials. N attempts remaining.",
                                        calls) EXCEPT !.n = MaxAttempts - newCount]
                     ELSE IF newCount >= MaxAttempts
                          THEN Reply(u, 403,
                                 "Too many failed attempts. Account locked for 15 minutes.",
                                 calls)
                          ELSE [Reply(u, 401, "Incorrect Password. (N attempts remaining)",
                                      calls) EXCEPT !.n = MaxAttempts - newCount]
           ELSE /\ users' = ResetAttempts(id)
                /\ last' = IF variant = "citizen"
                           THEN [Success(u, "Login successful", calls) EXCEPT !.token = TRUE]
                           ELSE [Reply(u, 200, "session", calls) EXCEPT !.token = TRUE]

----------------------------------------------------------------------------
(* auth/migrate.ts: the script that copies the Supabase profiles into the   *)
(* Better Auth "user" table.  The legacy store it reads is users; one loop  *)
(* iteration of runMigration is one step.                                   *)

\* the script has not run
NoRun ==
    [pc |-> "idle", runs |-> 0, pool |-> "open", profiles |-> <<>>, i |-> 1,
     migrated |-> 0, skipped |-> 0, failed |-> 0, total |-> -1,
     inserted |-> 0, existing |-> 0, clean |-> TRUE,
     firstClean |-> FALSE, first |-> <<>>]

\* getSupabaseUsers: supabaseAdmin.from("profiles").select("*")
getSupabaseUsers == [i \in 1..Cardinality({j \in Ids : users[j].profile}) |->
                        CHOOSE k \in Ids :
                            /\ users[k].profile
                            /\ Cardinality({j \in 1..k : users[j].profile}) = i]

\* an existence check that finds nothing
TargetEmailRowsUnchecked(email) == {}

\* SELECT id FROM "user" WHERE email = $1, on the target table
TargetEmailRows(email) == {k \in DOMAIN target : target[k].email = email}

\* the VALUES of the INSERT INTO "user"
MigratedRow(id) ==
    [id |-> id,
     email |-> users[id].email,
     emailVerified |-> users[id].emailVerified,
     role |-> IF users[id].role = "none" THEN "citizen" ELSE users[id].role,
     fin |-> users[id].fin,
     phone |-> users[id].phone,
     failed |-> users[id].failed,
     lockedUntil |-> users[id].lockedUntil]

\* runMigration up to the loop: a fresh process has an open pool, a second
\* call in the same process finds the pool as the first call's finally left it
runMigrationStart(fresh, fault) ==
    /\ run.pc \in {"idle", "returned", "thrown"}
    /\ run.runs < MaxRuns
    /\ UNCHANGED <<variant, users, now, last, inflight, target>>
    /\ LET pool == IF fresh THEN "open" ELSE run.pool
           r == [run EXCEPT !.pool = pool, !.profiles = <<>>, !.i = 1,
                            !.migrated = 0, !.skipped = 0, !.failed = 0, !.total = -1,
                            !.inserted = 0, !.existing = 0,
                            !.clean = (fault = "none" /\ pool = "open")]
       IN  IF fault = "read"
           THEN \* getSupabaseUsers throws: rethrown after finally { pool.end() }
                run' = [r EXCEPT !.pc = "thrown", !.pool = "ended", !.runs = run.runs + 1,
                                 !.firstClean = IF run.runs = 0 THEN FALSE ELSE run.firstClean,
                                 !.first = IF run.runs = 0 THEN target ELSE run.first]
           ELSE run' = [r EXCEPT !.pc = "loop", !.profiles = getSupabaseUsers]

\* one iteration of the loop: migrateUserToBetterAuth(profile) and the count
migrateUserToBetterAuth(fault) ==
    /\ run.pc = "loop"
    /\ run.i <= Len(run.profiles)
    /\ UNCHANGED <<variant, users, now, last, inflight>>
    /\ LET id == run.profiles[run.i]
           email == users[id].email
           r == [run EXCEPT !.i = run.i + 1,
                            !.clean = run.clean /\ fault = "none"]
       IN  IF fault = "auth"
           THEN \* getSupabaseAuthUser throws
                run' = [r EXCEPT !.failed = run.failed + 1] /\ UNCHANGED target
           ELSE IF email = ""
           THEN \* return null
                run' = [r EXCEPT !.skipped = run.skipped + 1] /\ UNCHANGED target
           ELSE IF fault = "read" \/ run.pool = "ended"
           THEN \* the SELECT throws
                run' = [r EXCEPT !.failed = run.failed + 1] /\ UNCHANGED target
           ELSE IF TargetEmailRows(email) # {}
           THEN \* return existingUser.rows[0]
                /\ run' = [r EXCEPT !.migrated = run.migrated + 1,
                                    !.existing = run.existing + 1]
                /\ UNCHANGED target
           ELSE IF fault = "write"
           THEN \* the INSERT throws
                run' = [r EXCEPT !.failed = run.failed + 1] /\ UNCHANGED target
           ELSE /\ target' = Append(target, MigratedRow(id))
                /\ run' = [r EXCEPT !.migrated = run.migrated + 1,
                                    !.inserted = run.inserted + 1]

\* the end of runMigration: the summary, the return value and finally
\* { await pool.end() }, which may reject on a pool that was already ended
runMigrationReturn ==
    /\ run.pc = "loop"
    /\ run.i > Len(run.profiles)
    /\ UNCHANGED <<variant, users, now, last, inflight, target>>
    /\ \E outcome \in (IF run.pool = "ended" THEN {"returned", "thrown"} ELSE {"returned"}) :
          run' = [run EXCEPT !.pc = outcome, !.pool = "ended",
                             !.total = Len(run.profiles), !.runs = run.runs + 1,
                             !.firstClean = IF run.runs = 0 THEN run.clean
                                            ELSE run.firstClean,
                             !.first = IF run.runs = 0 THEN target ELSE run.first]

----------------------------------------------------------------------------
(* Time passes *)

Tick ==
    /\ now + TickMinutes <= MaxTime
    /\ now' = now + TickMinutes
    /\ UNCHANGED <<variant, users, last, inflight, target, run>>

----------------------------------------------------------------------------
(* The requests the model sends *)

Pad(s) == <<" ">> \o s \o <<" ">>

FinInputs == FINs \cup {NoFin, Rep("7", FinLength - 1), Rep("7", FinLength - 1) \o <<"x">>}
RegisterFins == {FinA, FinB, NoFin}

PhoneInputs ==
    UNION {{Local09 \o x, Intl2519 \o x, Bare2519 \o x, Pad(Local09 \o x), <<"9">> \o x}
           : x \in {SuffixA, SuffixB}}

LoginInputs == {NoFin, <<" ">>, Pad(FinA)} \cup FINs \cup PhoneInputs

RegisterFaults == {"none", "body", "fayda", "read", "auth", "write"}
InitiateFaults == {"none", "body", "read", "fayda"}
LoginFaults == {"none", "body", "read", "auth", "write"}

InitiateRegister(fins, faults) ==
    \E fin \in fins, fault \in faults :
        \/ CitizenInitiateRegister(fin, fault)
        \/ LegacyInitiateRegister(fin, fault)

CompleteRegister(fins, otps, emails, passwords, faults) ==
    \E fin \in fins, otp \in otps, email \in emails, password \in passwords,
       fault \in faults :
        \/ CitizenCompleteRegister(fin, otp, email, password, fault)
        \/ LegacyCompleteRegister(fin, otp, email, password, fault)

Login(inputs, passwords, faults) ==
    \E loginInput \in inputs, password \in passwords, fault \in faults :
        \/ CitizenLogin(loginInput, password, fault)
        \/ LegacyLogin(loginInput, password, fault)

ResetFaults == {"none", "body", "fayda", "read", "auth"}

InitiateReset(fins, faults) ==
    \E fin \in fins, fault \in faults :
        \/ CitizenInitiateReset(fin, fault)
        \/ LegacyInitiateReset(fin, fault)

\* session: the account whose session the request's headers carry, 0 for none
ResetPassword(fins, otps, passwords, faults) ==
    \E fin \in fins, otp \in otps, newPassword \in passwords, fault \in faults :
        \/ \E session \in {0} \cup Ids :
              CitizenResetPassword(fin, otp, newPassword, session, fault)
        \/ LegacyResetPassword(fin, otp, newPassword, fault)

Headers == {"missing", "bearer"}
GuardFaults == {"none", "auth", "read"}
AdminLoginFaults == {"none", "body", "auth", "read", "signout"}

Guarded(routes, faults) ==
    \E route \in routes, header \in Headers, validated \in {0} \cup Ids, fault \in faults :
        AdminGuarded(route, header, validated, fault)

AdminSignIn(emails, passwords, faults) ==
    \E email \in emails, password \in passwords, fault \in faults :
        AdminLogin(email, password, fault)


----------------------------------------------------------------------------
(* The whole service, from an empty store *)

Init ==
    /\ variant \in {"citizen", "legacy"}
    /\ users = <<>>
    /\ now = 0
    /\ last = Idle
    /\ inflight = NoneInflight
    /\ target = <<>>
    /\ run = NoRun

Next ==
    \/ InitiateRegister(FinInputs, InitiateFaults)
    \/ CompleteRegister(FINs \cup {NoFin}, Otps, Emails \cup {""}, Passwords \cup {""},
                        RegisterFaults)
    \/ Login(LoginInputs, Passwords \cup {""}, LoginFaults)
    \/ InitiateReset(FINs \cup {NoFin}, InitiateFaults)
    \/ ResetPassword(FINs \cup {NoFin}, Otps, Passwords \cup {""}, ResetFaults)
    \/ Tick

Spec == Init /\ [][Next]_vars

----------------------------------------------------------------------------
(* Registration alone: every input and every failure of the two handlers *)

NextRegister ==
    \/ InitiateRegister(FinInputs, InitiateFaults)
    \/ CompleteRegister(RegisterFins, Otps, Emails \cup {""}, {"pw1", ""},
                        RegisterFaults)

SpecRegister == Init /\ [][NextRegister]_vars

----------------------------------------------------------------------------
(* The five endpoints from an empty store, one email, every failure *)

ApiFins == {FinA, NoFin}

NextApi ==
    \/ InitiateRegister(ApiFins, InitiateFaults)
    \/ CompleteRegister(ApiFins, {GoodOtp, "bad"}, {"a@x"}, {"pw1"}, RegisterFaults)
    \/ Login(ApiFins, Passwords, LoginFaults)
    \/ InitiateReset(ApiFins, InitiateFaults)
    \/ ResetPassword(ApiFins, {GoodOtp, "bad"}, {"pw2", ""}, ResetFaults)

SpecApi == Init /\ [][NextApi]_vars

----------------------------------------------------------------------------
(* Login and lockout on a store of registered citizens *)

\* the row a successful complete-register leaves in each deployment
Registered(v, fin, email, password) ==
    IF v = "citizen"
    THEN BackFilled(SignedUpRow(email, password), fin, KycPhone(fin))
    ELSE WithProfile(CreatedAuthUser(email, password), fin, KycPhone(fin))

InitLogin ==
    /\ variant \in {"citizen", "legacy"}
    /\ users = <<Registered(variant, FinA, "a@x", "pw1"),
                 Registered(variant, FinB, "b@x", "pw1")>>
    /\ now = 0
    /\ last = Idle
    /\ inflight = NoneInflight
    /\ target = <<>>
    /\ run = NoRun

LockoutInputs == {NoFin, FinA, Local09 \o SuffixB, FinC}
LockoutFaults == {"none", "auth", "write"}

NextLogin ==
    \/ Login(LockoutInputs, Passwords \cup {""}, LockoutFaults)
    \/ Tick

SpecLogin == InitLogin /\ [][NextLogin]_vars

----------------------------------------------------------------------------
(* Two login requests at a time on a store of registered citizens *)

RaceInputs == {FinA, FinC}

NextRace ==
    \/ \E s \in Slots, loginInput \in RaceInputs, password \in Passwords :
          LoginRead(s, loginInput, password)
    \/ \E s \in Slots : LoginCheck(s)
    \/ \E s \in Slots : LoginWrite(s)

SpecRace == InitLogin /\ [][NextRace]_vars

----------------------------------------------------------------------------
(* Password reset on stores of registered citizens *)

\* two citizens, and one FIN registered under two emails; FinC is not stored
ResetStores(v) ==
    {<<Registered(v, FinA, "a@x", "pw1"), Registered(v, FinB, "b@x", "pw1")>>,
     <<Registered(v, FinA, "a@x", "pw1"), Registered(v, FinA, "b@x", "pw1")>>}

InitReset ==
    /\ variant \in {"citizen", "legacy"}
    /\ users \in ResetStores(variant)
    /\ now = 0
    /\ last = Idle
    /\ inflight = NoneInflight
    /\ target = <<>>
    /\ run = NoRun

NextReset ==
    \/ InitiateReset(FINs \cup {NoFin}, InitiateFaults)
    \/ ResetPassword(FINs \cup {NoFin}, Otps, {"pw2", ""}, ResetFaults)

SpecReset == InitReset /\ [][NextReset]_vars

----------------------------------------------------------------------------
(* Password reset on stores whose accounts carry failed logins *)

\* the first citizen locked by five failed logins at minute 0, the second
\* with two failures and no lock or with a lock that was set the same way
LockedStores(v) ==
    {<<[Registered(v, FinA, "a@x", "pw1")
          EXCEPT !.failed = MaxAttempts, !.lockedUntil = LockMinutes],
       [Registered(v, FinB, "b@x", "pw1")
          EXCEPT !.failed = f, !.lockedUntil = IF f >= MaxAttempts THEN LockMinutes
                                               ELSE NoLock]>> : f \in {2, MaxAttempts}}

InitResetLocked ==
    /\ variant \in {"citizen", "legacy"}
    /\ users \in LockedStores(variant)
    /\ now = 0
    /\ last = Idle
    /\ inflight = NoneInflight
    /\ target = <<>>
    /\ run = NoRun

SpecResetLocked == InitResetLocked /\ [][NextReset]_vars

----------------------------------------------------------------------------
(* The admin dashboard: staff rows are provisioned in the profiles table,   *)
(* citizens register, and an auth user can be left without a profile when   *)
(* the profiles insert of complete-register fails                           *)

StaffEmails == {"root@x", "staff@x"}

\* a profiles row with the given role, as provisioned for staff
Staff(email, password, role) ==
    [WithProfile(CreatedAuthUser(email, password), NoFin, NoPhone) EXCEPT !.role = role]

\* two staff rows and either a registered citizen or an auth user whose
\* profiles insert failed
AdminStores ==
    {<<Staff("root@x", "pw1", "super_admin"), Staff("staff@x", "pw1", "admin"), third>> :
        third \in {Registered("legacy", FinA, "a@x", "pw1"), CreatedAuthUser("b@x", "pw1")}}

InitAdmin ==
    /\ variant = "legacy"
    /\ users \in AdminStores
    /\ now = 0
    /\ last = Idle
    /\ inflight = NoneInflight
    /\ target = <<>>
    /\ run = NoRun

NextAdmin ==
    \/ Guarded(GuardedRoutes, GuardFaults)
    \/ AdminSignIn(StaffEmails \cup Emails \cup {""}, Passwords \cup {""}, AdminLoginFaults)

SpecAdmin == InitAdmin /\ [][NextAdmin]_vars

----------------------------------------------------------------------------
(* The migration script run up to MaxRuns times over one legacy store *)

\* a user who signed up in the Better Auth deployment
SignedUpTarget(id, email) ==
    [id |-> id, email |-> email, emailVerified |-> FALSE, role |-> "citizen",
     fin |-> NoFin, phone |-> NoPhone, failed |-> 0, lockedUntil |-> NoLock]

\* two registered citizens, one of them locked by failed logins, and either a
\* staff profile or a profile whose auth user has no email address
MigrateStores ==
    {<<Registered("legacy", FinA, "a@x", "pw1"),
       [Registered("legacy", FinB, "b@x", "pw1")
          EXCEPT !.failed = MaxAttempts, !.lockedUntil = LockMinutes],
       third>> : third \in {Staff("staff@x", "pw1", "admin"), Staff("", "", "citizen")}}

\* the target table before the first run: empty, or holding a user who signed
\* up there with an email that a legacy account also has
MigrateTargets == {<<>>, <<SignedUpTarget(100, "a@x")>>}

MigrateFaults == {"none", "auth", "read", "write"}

InitMigrate ==
    /\ variant = "legacy"
    /\ users \in MigrateStores
    /\ now = 0
    /\ last = Idle
    /\ inflight = NoneInflight
    /\ target \in MigrateTargets
    /\ run = NoRun

NextMigrate ==
    \/ \E fresh \in BOOLEAN, fault \in {"none", "read"} : runMigrationStart(fresh, fault)
    \/ \E fault \in MigrateFaults : migrateUserToBetterAuth(fault)
    \/ runMigrationReturn

SpecMigrate == InitMigrate /\ [][NextMigrate]_vars

----------------------------------------------------------------------------
(* Identifier lookup at login, on stores holding each phone format *)

\* stores that registration leaves: the provider's phone formats side by side,
\* a phone number that spells an unregistered FIN, and one FIN registered
\* under two emails
LookupStores(v) ==
    {<<Registered(v, FinA, "a@x", "pw1"), Registered(v, FinB, "b@x", "pw1")>>,
     <<Registered(v, FinC, "a@x", "pw1"), Registered(v, FinB, "b@x", "pw1")>>,
     <<Registered(v, FinC, "a@x", "pw1"), Registered(v, FinA, "b@x", "pw1")>>,
     <<Registered(v, FinA, "a@x", "pw1"), Registered(v, FinA, "b@x", "pw1")>>}

InitLookup ==
    /\ variant \in {"citizen", "legacy"}
    /\ users \in LookupStores(variant)
    /\ now = 0
    /\ last = Idle
    /\ inflight = NoneInflight
    /\ target = <<>>
    /\ run = NoRun

LookupFaults == {"none", "read"}

NextLookup == Login(LoginInputs, Passwords, LookupFaults)

SpecLookup == InitLookup /\ [][NextLookup]_vars

----------------------------------------------------------------------------
(* Lockout properties, checked under SpecLogin *)

LockoutMessages ==
    {"Too many failed attempts. Account locked for 15 minutes.",
     "Account locked. Try again in N minutes."}

\* the last request was a login whose password check the delegate failed, and
\* every call of the request completed
FailedCheck == last.op = "login" /\ last.pw = "fail" /\ last.fault = "none"

\* the last request was a login that reached an account whose lock was active
OnLockedAccount ==
    /\ last.op = "login"
    /\ last.user # 0
    /\ last.preLock # NoLock
    /\ last.preLock > last.at

\* C1: requests handled one at a time.  The fifth consecutive failed login of
\* an account that started unlocked at counter 0 sets lock-until 15 minutes
\* ahead, and every login that reaches the account before lock-until has
\* passed is answered 403 with the lockout error, without a password check and
\* without a token, also when it carries the right password.
C1_LockedUntilExpiry ==
    /\ (FailedCheck /\ last.pre = 4) =>
           /\ users[last.user].lockedUntil = last.at + 15
           /\ users[last.user].lockedUntil > last.at
    /\ OnLockedAccount =>
           /\ last.status = 403
           /\ last.msg \in LockoutMessages
           /\ last.pw = "none"
           /\ ~last.token

\* a login with the right password is refused on an account locked by five failures
C1_Witness ==
    /\ OnLockedAccount
    /\ users[last.user].failed = 5
    /\ last.password = users[last.user].password
    /\ last.status = 403

C3_FailedCheckTransition ==
    FailedCheck =>
        LET c == last.pre
            row == users[last.user]
        IN  /\ ~(last.preLock # NoLock /\ last.preLock > last.at)
            /\ row.failed = c + 1
            /\ (c + 1 >= 5) =>
                   /\ row.lockedUntil = last.at + 15
                   /\ last.status = 403
                   /\ last.msg = "Too many failed attempts. Account locked for 15 minutes."
            /\ (c + 1 < 5) =>
                   /\ last.status = 401
                   /\ last.n = 5 - (c + 1)
                   /\ last.msg \in {"Invalid credentials. N attempts remaining.",
                                    "Incorrect Password. (N attempts remaining)"}

\* both cases are reached: a failure below the limit and the one that locks
C3_Witness ==
    /\ FailedCheck
    /\ last.pre = 4
    /\ last.status = 403
    /\ \E i \in Ids : i # last.user /\ users[i].failed \in 1..3

\* C10: an account that is not locked (lock-until null or not in the future)
\* has a failed-attempt counter strictly below 5.
C10_UnlockedBelowLimit ==
    \A i \in Ids :
        ~(users[i].lockedUntil # NoLock /\ users[i].lockedUntil > now) => users[i].failed < 5

\* C11: a lock ends by time alone.  A login that reaches an account whose
\* lock-until is not in the future, with the account's password, is not
\* answered with a lockout error: it succeeds with a token and leaves the
\* counter at 0 and lock-until null.
C11_LockExpires ==
    (/\ last.op = "login"
     /\ last.user # 0
     /\ last.fault = "none"
     /\ last.preLock # NoLock
     /\ last.preLock <= last.at
     /\ last.password = users[last.user].password) =>
        /\ last.status = 200
        /\ last.msg \notin LockoutMessages
        /\ last.token
        /\ users[last.user].failed = 0
        /\ users[last.user].lockedUntil = NoLock

\* five failures locked the account, the clock passed lock-until, the right
\* password is accepted
C11_Witness ==
    /\ last.op = "login"
    /\ last.status = 200
    /\ last.pre = 5
    /\ last.preLock # NoLock
    /\ last.preLock < last.at
    /\ last.password = users[last.user].password
    /\ users[last.user].lockedUntil = NoLock

\* a login request was handled in this step
LoginStep == last' # last /\ last'.op = "login"

PasswordCheckCalls == {"auth.signInEmail", "auth.signInWithPassword"}

\* the accounts a trimmed login identifier stands for
Resolved(key) ==
    IF Len(key) = 12 /\ \A i \in 1..Len(key) : key[i] \in Digits
    THEN {i \in Ids : users[i].fin = key}
    ELSE {i \in Ids : users[i].phone \in Range(possibleNumbers(key))}

\* C22: login does not reveal whether an account exists.  The answer to a
\* wrong password on a stored, unlocked account has the status and the body
\* of the answer to an identifier that matches no account: 401 with the
\* unknown-identifier error and no attempt count.
C22_LoginHidesExistence ==
    (FailedCheck /\ ~(last.preLock # NoLock /\ last.preLock > last.at)) =>
        /\ last.status = 401
        /\ last.msg = UnknownIdentifierError(variant)
        /\ last.n = -1

\* C24: a login that reaches an account whose lock-until is in the future is
\* answered 403 without a password check by the managed auth delegate, and
\* the store is left as it was: the counter and lock-until keep their values,
\* so attempts made while locked never extend the lock.
C24_LockedLoginChangesNothing ==
    [][(/\ LoginStep
        /\ last'.user # 0
        /\ users[last'.user].lockedUntil # NoLock
        /\ users[last'.user].lockedUntil > now) =>
            /\ last'.status = 403
            /\ last'.pw = "none"
            /\ Range(last'.calls) \cap PasswordCheckCalls = {}
            /\ users' = users]_vars

\* a wrong password sent some minutes into a lock: the lock and the counter
\* are what they were when the request arrived
C24_Witness ==
    /\ OnLockedAccount
    /\ last.at > 0
    /\ last.status = 403
    /\ last.password # users[last.user].password
    /\ users[last.user].failed = last.pre
    /\ users[last.user].lockedUntil = last.preLock

\* C25: the expiry of a lock does not reset the counter.  A stored lock-until,
\* expired or not, comes with a counter of at least 5, so the first failed
\* login after the expiry (no success in between) is answered 403 and sets a
\* new lock of 15 minutes instead of reporting remaining attempts.
C25_ExpiredLockKeepsCounter ==
    /\ \A i \in Ids : users[i].lockedUntil # NoLock => users[i].failed >= 5
    /\ (FailedCheck /\ last.preLock # NoLock /\ last.preLock <= last.at) =>
           /\ last.pre >= 5
           /\ last.status = 403
           /\ last.msg = "Too many failed attempts. Account locked for 15 minutes."
           /\ users[last.user].failed = last.pre + 1
           /\ users[last.user].lockedUntil = last.at + 15

\* five failures, the lock runs out, and the sixth failure locks again at once
C25_Witness ==
    /\ FailedCheck
    /\ last.pre = 5
    /\ last.preLock # NoLock
    /\ last.preLock <= last.at
    /\ last.status = 403
    /\ users[last.user].failed = 6
    /\ users[last.user].lockedUntil > now

\* C30: a login request changes at most the failed counter and lock-until of
\* one account, an account its identifier stands for.  A login answered 400
\* for missing input, and a login whose identifier stands for no account
\* (answered 401), change nothing in the store and make no password check.
C30_LoginWritesOneAccount ==
    [][LoginStep =>
        LET r == last'
            key == Trim(r.input)
            made == Range(r.calls)
        IN  /\ Len(users') = Len(users)
            /\ \A i \in Ids :
                   /\ i # r.user => users'[i] = users[i]
                   /\ [users'[i] EXCEPT !.failed = users[i].failed,
                                        !.lockedUntil = users[i].lockedUntil] = users[i]
            /\ r.user # 0 => r.user \in Resolved(key)
            /\ (key = <<>> \/ r.password = "") => r.status = 400
            /\ (key # <<>> /\ r.password # "" /\ Resolved(key) = {}) => r.status = 401
            /\ (r.status = 400 \/ Resolved(key) = {}) =>
                   /\ users' = users
                   /\ r.user = 0
                   /\ r.pw = "none"
                   /\ made \cap PasswordCheckCalls = {}]_vars

\* an unknown identifier is answered 401 while another account carries failed
\* attempts, which stay as they are
C30_Witness ==
    /\ last.op = "login"
    /\ last.input = FinC
    /\ last.status = 401
    /\ last.user = 0
    /\ last.calls = <<"store.selectByFin">>
    /\ \E i, j \in Ids : users[i].failed = 2 /\ users[j].failed = 5

----------------------------------------------------------------------------
(* Lookup properties, checked under SpecLookup *)

TwelveDigits(s) == Len(s) = 12 /\ \A i \in 1..Len(s) : s[i] \in Digits

\* the accounts stored with the phone number of suffix x in either format
PhoneHolders(x) == {i \in Ids : users[i].phone \in {Local09 \o x, Intl2519 \o x}}

LookedUp ==
    /\ last.op = "login"
    /\ last.fault # "body"
    /\ Trim(last.input) # <<>>
    /\ last.password # ""

\* C5: login classifies the trimmed identifier.  Twelve decimal digits are
\* looked up by FIN only, never by phone: the account reached holds that FIN,
\* and when no account holds it the login is answered 401 even if an account
\* has those digits as its phone number.  Every other non-empty identifier is
\* looked up by phone only.
C5_ClassifiedOnTrimmed ==
    LookedUp =>
        LET key == Trim(last.input)
        IN  IF TwelveDigits(key)
            THEN /\ last.lookup = "fin"
                 /\ "store.selectByPhone" \notin Range(last.calls)
                 /\ last.user # 0 => users[last.user].fin = key
                 /\ (\A i \in Ids : users[i].fin # key) =>
                        last.user = 0 /\ last.status \in {401, 500}
            ELSE /\ last.lookup = "phone"
                 /\ "store.selectByFin" \notin Range(last.calls)
                 /\ last.user # 0 =>
                        users[last.user].phone \in Range(possibleNumbers(key))

\* a FIN sent with surrounding blanks reaches the account holding it
C5_Witness ==
    /\ last.op = "login"
    /\ last.input = Pad(FinA)
    /\ last.lookup = "fin"
    /\ last.user # 0
    /\ users[last.user].fin = FinA

----------------------------------------------------------------------------
(* Registration properties, checked under SpecRegister *)

Holders(fin) == {i \in Ids : users[i].fin = fin}

\* a complete-register request was handled in this step
CompleteStep == last' # last /\ last'.op = "complete-register"

\* the provider accepts the OTP of the request r
Accepted(r) == r.input \in FINs /\ r.otp = GoodOtp

C7_RegistrationOutcome ==
    [][CompleteStep =>
        LET r == last'
            n == Len(users)
        IN  /\ (/\ Accepted(r)
                /\ r.email # "" /\ r.password # "" /\ r.fault = "none"
                /\ \A i \in Ids : users[i].email # r.email) =>
                   /\ r.status = 200
                   /\ Len(users') = n + 1
                   /\ SubSeq(users', 1, n) = users
                   /\ users'[n + 1].role = "citizen"
                   /\ users'[n + 1].emailVerified
                   /\ users'[n + 1].fin = r.input
                   /\ users'[n + 1].email = r.email
            /\ ~Accepted(r) => (r.status # 200 /\ users' = users)]_vars

C7_Witness ==
    /\ last.op = "complete-register"
    /\ last.status = 200
    /\ Len(users) = 2
    /\ users[last.user].role = "citizen"
    /\ users[last.user].emailVerified
    /\ users[last.user].fin = last.input

\* C8: after any sequence of initiate-register and complete-register requests
\* no two stored accounts have the same FIN.
C8_FinUnique ==
    variant = "citizen" =>
        \A i, j \in Ids : (i # j /\ users[i].fin # NoFin) => users[i].fin # users[j].fin

\* C9: no two stored accounts have the same email; complete-register with an
\* email that already belongs to a stored account creates and modifies no
\* account, and in citizenAuth answers 409 once the required fields are
\* present and the provider has accepted the OTP.
C9_EmailUnique ==
    /\ [](\A i, j \in Ids : i # j => users[i].email # users[j].email)
    /\ [][(CompleteStep /\ \E i \in Ids : users[i].email = last'.email) =>
            /\ users' = users
            /\ (/\ variant = "citizen"
                /\ Accepted(last')
                /\ last'.password # ""
                /\ last'.fault = "none") => last'.status = 409]_vars

C9_Witness ==
    /\ variant = "citizen"
    /\ last.op = "complete-register"
    /\ last.status = 409
    /\ Cardinality({i \in Ids : users[i].email = last.email}) = 1
    /\ Len(users) = 1

\* C16: citizenAuth complete-register answers 400 when a required field
\* (fin, otp, email, password) is missing and also when all fields are present
\* and the identity provider rejects the OTP.
C16_RejectedOtpIs400 ==
    (/\ variant = "citizen"
     /\ last.op = "complete-register"
     /\ last.fault = "none"
     /\ \/ last.input = NoFin \/ last.otp = "" \/ last.email = "" \/ last.password = ""
        \/ ~Accepted(last)) =>
        last.status = 400

\* C17: initiate-register with a FIN that is missing or is not exactly twelve
\* decimal digits answers 400 and makes no call: neither the store lookup nor
\* the provider's request-OTP.
C17_MalformedFinRejected ==
    (/\ last.op = "initiate-register"
     /\ last.fault = "none"
     /\ ~TwelveDigits(last.input)) =>
        /\ last.status = 400
        /\ last.calls = <<>>

ProviderCalls == {"fayda.requestOtp", "fayda.verifyOtp"}

\* C26: complete-register is all-or-nothing.  Whenever it answers with a
\* status other than 200 the store holds the accounts it held before the
\* request, also when the back-fill of the identity attributes fails after
\* the managed auth library has created the user.
C26_RegisterAllOrNothing ==
    [][(CompleteStep /\ last'.status # 200) => users' = users]_vars

\* C27: an account created by complete-register follows, in the same request,
\* a verify-OTP call for the request's FIN that the provider accepted: the
\* call is the first the request makes, and without it no row is added.  No
\* registration request calls the provider more than once.
C27_CreationFollowsVerification ==
    [][(last' # last /\ last'.op \in {"initiate-register", "complete-register"}) =>
        LET r == last'
        IN  /\ Cardinality({i \in 1..Len(r.calls) : r.calls[i] \in ProviderCalls}) <= 1
            /\ users' # users =>
                   /\ r.op = "complete-register"
                   /\ r.calls # <<>>
                   /\ r.calls[1] = "fayda.verifyOtp"
                   /\ r.input \in FINs
                   /\ r.otp = GoodOtp
                   /\ Len(users') = Len(users) + 1
                   /\ SubSeq(users', 1, Len(users)) = users
                   /\ users'[Len(users')].fin \in {r.input, NoFin}]_vars

\* a verified registration completes after an earlier one stopped at its
\* back-fill
C27_Witness ==
    /\ last.op = "complete-register"
    /\ last.status = 200
    /\ last.otp = GoodOtp
    /\ last.calls[1] = "fayda.verifyOtp"
    /\ last.user = 2
    /\ users[2].fin = last.input
    /\ users[1].fin = NoFin

----------------------------------------------------------------------------
(* Password-reset properties, checked under SpecReset *)

\* a reset-password request was handled in this step
ResetStep == last' # last /\ last'.op = "reset-password"

PasswordUpdateCalls == {"auth.setPassword", "auth.updateUserById"}

\* C13: citizenAuth initiate-reset answers the same (status, success flag and
\* message) whether or not an account with the requested FIN is stored, when
\* the provider call it makes succeeds: the answer given equals the answer
\* the same request gets when the store returns no row.
C13_ResetHidesExistence ==
    (/\ variant = "citizen"
     /\ last.op = "initiate-reset"
     /\ last.fault = "none"
     /\ last.input # NoFin) =>
        LET absent == CitizenInitiateResetReply(Req("initiate-reset", last.input, ""),
                                                {}, "none")
        IN  /\ last.status = absent.status
            /\ last.success = absent.success
            /\ last.msg = absent.msg

\* C14: a reset-password request for a FIN held by one account, with an OTP
\* the provider accepts and a new password, succeeds whatever session the
\* request carries; and a reset-password that answers 200 has set the new
\* password on an account holding the supplied FIN and changed no other row.
C14_ResetsSuppliedFinOnly ==
    [][ResetStep =>
        LET r == last'
        IN  /\ r.status = 200 =>
                   \E id \in Holders(r.input) :
                       /\ users'[id].password = r.password
                       /\ \A j \in Ids \ {id} : users'[j] = users[j]
            /\ (/\ Accepted(r)
                /\ r.password # ""
                /\ r.fault = "none"
                /\ Cardinality(Holders(r.input)) = 1) => r.status = 200]_vars

\* C15: reset-password verifies the OTP before it looks the account up.  With
\* an OTP the provider does not accept it answers with an error, without a
\* lookup and without a password update; with an accepted OTP and no account
\* holding the FIN it answers 404 without a password update; and whenever it
\* does not answer 200 the stored accounts are as they were.
C15_FailedResetChangesNothing ==
    [][ResetStep =>
        LET r == last'
            made == Range(r.calls)
        IN  /\ r.status # 200 => users' = users
            /\ "store.selectByFin" \in made => r.calls[1] = "fayda.verifyOtp"
            /\ ~Accepted(r) =>
                   /\ r.status # 200
                   /\ "store.selectByFin" \notin made
                   /\ made \cap PasswordUpdateCalls = {}
            /\ (/\ Accepted(r)
                /\ Holders(r.input) = {}
                /\ r.fault = "none"
                /\ variant = "citizen" => r.password # "") =>
                   /\ r.status = 404
                   /\ made \cap PasswordUpdateCalls = {}]_vars

\* an accepted OTP for a FIN no account holds, on a store with accounts
C15_Witness ==
    /\ last.op = "reset-password"
    /\ last.otp = GoodOtp
    /\ last.input = FinC
    /\ last.status = 404
    /\ last.calls = <<"fayda.verifyOtp", "store.selectByFin">>
    /\ Len(users) = 2

----------------------------------------------------------------------------
(* Password reset and the lockout, checked under SpecResetLocked *)

\* C28: initiate-reset and reset-password never write the failed-attempt
\* counter or lock-until of any account: an account locked before a password
\* reset that succeeds is locked after it, with the same counter and the same
\* lock-until.
C28_ResetKeepsLockout ==
    [][(last' # last /\ last'.op \in {"initiate-reset", "reset-password"}) =>
        /\ Len(users') = Len(users)
        /\ \A i \in Ids :
               /\ users'[i].failed = users[i].failed
               /\ users'[i].lockedUntil = users[i].lockedUntil]_vars

\* the password of a locked account was replaced and the account is still
\* locked at counter 5
C28_Witness ==
    /\ last.op = "reset-password"
    /\ last.status = 200
    /\ \E i \in Ids :
          /\ users[i].password = last.password
          /\ users[i].password # "pw1"
          /\ users[i].failed = 5
          /\ users[i].lockedUntil # NoLock
          /\ users[i].lockedUntil > now

----------------------------------------------------------------------------
(* Responses of the citizen endpoints, checked under SpecApi *)

CitizenOps == {"initiate-register", "complete-register", "login", "initiate-reset",
               "reset-password"}

\* C18: every request to a citizenAuth endpoint ends in one response, whatever
\* fails (body, store, identity provider, managed auth): nothing escapes the
\* handler; a response other than 200 carries success = false and an error
\* message, a caught failure is answered 500, and success = true comes with
\* status 200 only.
C18_EveryRequestAnswered ==
    (variant = "citizen" /\ last.op \in CitizenOps) =>
        /\ ~last.escaped
        /\ last.status \in {200, 400, 401, 403, 404, 409, 500}
        /\ last.success \in {"true", "false"}
        /\ last.success = "true" => last.status = 200
        /\ last.status # 200 => (last.success = "false" /\ last.msg # "")
        /\ last.fault # "none" => (last.status = 500 /\ last.success = "false")

\* the managed-auth call of reset-password fails and is answered
C18_Witness ==
    /\ variant = "citizen"
    /\ last.op = "reset-password"
    /\ last.fault = "auth"
    /\ last.msg = "auth"
    /\ last.calls = <<"fayda.verifyOtp", "store.selectByFin", "auth.setPassword">>
    /\ last.status = 500
    /\ last.success = "false"

----------------------------------------------------------------------------
(* Admin properties, checked under SpecAdmin *)

\* the guard's conditions, read off the request and the store
HasHeader == last.header # "missing"
TokenValid == HasHeader /\ last.user # 0
HasProfile == TokenValid /\ users[last.user].profile
RoleOf == users[last.user].role

\* C19: a route behind adminGuard runs its handler only when the request has
\* an Authorization header whose token the auth service validates and the
\* user's profile has role admin or super_admin, and behind
\* adminGuard('super_admin') only when the role is super_admin.  Otherwise
\* the handler does not run and the answer is, in this order: 401 for a
\* missing header or an invalid token, 404 for a user without profile, 403
\* for an insufficient role.
C19_GuardAdmitsAdminsOnly ==
    (last.op \in GuardedRoutes /\ last.fault = "none") =>
        LET admitted ==
              /\ HasProfile
              /\ RoleOf \in {"admin", "super_admin"}
              /\ last.op = "admin-system-logs" => RoleOf = "super_admin"
        IN  /\ last.ran <=> admitted
            /\ last.ran => last.status = 200
            /\ ~admitted =>
                   last.status = IF ~TokenValid THEN 401
                                 ELSE IF ~HasProfile THEN 404
                                 ELSE 403

\* an admin is stopped at the super-admin route
C19_Witness ==
    /\ last.op = "admin-system-logs"
    /\ HasProfile
    /\ RoleOf = "admin"
    /\ last.status = 403
    /\ ~last.ran

\* C20: admin login returns a session only to a user whose profile has role
\* admin or super_admin.  For valid credentials of a user without profile or
\* with another role it answers 403 without a session in the response, and
\* the session that the sign-in issued has been signed out (when the
\* sign-out call completes).
C20_NoSessionForNonAdmins ==
    last.op = "admin-login" =>
        /\ last.token =>
               /\ last.status = 200
               /\ last.user # 0
               /\ users[last.user].profile
               /\ RoleOf \in {"admin", "super_admin"}
        /\ last.status # 200 => ~last.token
        /\ (/\ last.user # 0
            /\ last.fault = "none"
            /\ ~users[last.user].profile \/ RoleOf \notin {"admin", "super_admin"}) =>
               /\ last.status = 403
               /\ ~last.token
               /\ last.issued = "revoked"
               /\ last.calls[Len(last.calls)] = "auth.admin.signOut"

\* a registered citizen signs in at the admin login with the right password
C20_Witness ==
    /\ last.op = "admin-login"
    /\ last.user # 0
    /\ RoleOf = "citizen"
    /\ last.password = users[last.user].password
    /\ last.status = 403
    /\ last.issued = "revoked"

----------------------------------------------------------------------------
(* Concurrent logins, checked under SpecRace *)

\* the request in slot s writes the outcome of a failed password check
FailedWrite(s) ==
    /\ inflight[s].pc = "checked"
    /\ inflight'[s].pc = "idle"
    /\ ~inflight[s].ok

\* C12: the counter update is computed from the row the request read, not
\* from the store.  A failed login writes (counter it read) + 1; when the
\* response before it was a failed check of the same account that had read
\* the same counter c, the store holds c + 1 after both writes: one step up
\* for two failed password checks.
C12_LostUpdate ==
    [][\A s \in Slots :
        FailedWrite(s) =>
            LET u == inflight[s].q
            IN  /\ users'[u.user].failed = u.pre + 1
                /\ (/\ last.op = "login"
                    /\ last.pw = "fail"
                    /\ last.user = u.user
                    /\ last.pre = u.pre) =>
                       /\ users[u.user].failed = u.pre + 1
                       /\ users'[u.user].failed = users[u.user].failed]_vars

\* four failures are stored and two more wrong passwords have been checked
\* by requests that both read 4: six checks, and no lock is set yet
C12_Witness ==
    /\ users[1].failed = 4
    /\ users[1].lockedUntil = NoLock
    /\ \A s \in Slots :
          /\ inflight[s].pc = "checked"
          /\ ~inflight[s].ok
          /\ inflight[s].q.user = 1
          /\ inflight[s].q.pre = 4

\* C29: also with concurrent logins for one account, a lock-until that lies
\* in the future is changed before it expires only by the write of a request
\* whose password check succeeded; a failed attempt that read a lower counter
\* before the lock was set does not erase it.
C29_LockSurvivesRace ==
    [][\A id \in Ids :
          (/\ users[id].lockedUntil # NoLock
           /\ users[id].lockedUntil > now
           /\ users'[id].lockedUntil # users[id].lockedUntil) =>
              \E s \in Slots :
                  /\ inflight[s].pc = "checked"
                  /\ inflight'[s].pc = "idle"
                  /\ inflight[s].ok
                  /\ inflight[s].q.user = id]_vars

----------------------------------------------------------------------------
(* Migration properties, checked under SpecMigrate *)

\* one loop iteration of the migration ran in this step
MigrateStep == run.pc = "loop" /\ run'.pc = "loop" /\ run'.i = run.i + 1

\* C21: the migration skips duplicates by email and is idempotent.  For a
\* profile whose auth email is already in the target table no row is
\* inserted; the target never holds two rows with one email; and once a first
\* run has gone through without a failure, further runs over the same legacy
\* profiles leave the target table exactly as the first run left it.
C21_MigrationIdempotent ==
    /\ [](\A j, k \in DOMAIN target : j # k => target[j].email # target[k].email)
    /\ []((run.runs >= 1 /\ run.firstClean) => target = run.first)
    /\ [][(/\ MigrateStep
           /\ \E k \in DOMAIN target :
                 target[k].email = users[run.profiles[run.i]].email) =>
             target' = target]_vars

\* a second run in a fresh process found every email of the first run's rows
\* and returned with the table as the first run left it
C21_Witness ==
    /\ run.runs = 2
    /\ run.pc = "returned"
    /\ run.firstClean
    /\ run.clean
    /\ run.existing = 3
    /\ Len(target) = 3
    /\ target = run.first

\* C23: runMigration returns counts with migrated + skipped + failed = total.
\* A profile whose email is already in the target table is counted under
\* skipped and not under migrated, so migrated is the number of rows the run
\* inserted; a profile whose migration throws is counted under failed and the
\* loop goes on to the remaining profiles.
C23_MigrationCounts ==
    /\ run.pc = "loop" => run.migrated + run.skipped + run.failed = run.i - 1
    /\ run.pc = "returned" =>
           /\ run.total = Len(run.profiles)
           /\ run.i = run.total + 1
           /\ run.migrated + run.skipped + run.failed = run.total
           /\ run.migrated = run.inserted
           /\ run.skipped >= run.existing

====
